---- MODULE Spec2Model ----
(***************************************************************************)
(* A state-machine model of src/game.js (class GameClient): the WebSocket  *)
(* session with its reconnect timers, the dispatch of inbound messages     *)
(* into the player/avatar/companion stores, the camera viewport, and the   *)
(* animation loop with the companions' simulation tick.                    *)
(*                                                                         *)
(* Three specifications share the frame callback and the clock.  Spec is   *)
(* the whole client: sockets, timers, keys, resizes and a few messages.    *)
(* MessageSpec is one connection that receives every kind of message.      *)
(* FrameSpec is one connection whose messages move the player about the    *)
(* world.                                                                  *)
(*                                                                         *)
(* Every browser callback (socket open/close/error/message, timer, key,    *)
(* resize) runs to completion on one thread, so each is one action.        *)
(* The fields of `this` travel as one record, This; a handler is an        *)
(* operator from such records to such records, and a handler that can      *)
(* raise returns [g |-> record reached, threw |-> BOOLEAN], the record     *)
(* being what the exception left behind when it propagated.                *)
(***************************************************************************)
EXTENDS Integers, Sequences, FiniteSets, TLC

VARIABLES
    sockets,            \* the WebSocket objects that can still fire events, oldest first
    ws,                 \* this.ws: index into sockets, 0 for null
    reconnectAttempts,  \* this.reconnectAttempts
    timers,             \* pending setTimeout callbacks of attemptReconnect: their delays (ms)
    fails,              \* history: attemptReconnect calls since the last open event
    scheduled,          \* history: reconnect timers scheduled since the last open event
    window,             \* <<window.innerWidth, window.innerHeight>>
    players,            \* this.players: ordered map, a sequence of <<id, data>>
    avatars,            \* this.avatars: ordered map, a sequence of <<name, data>>
    myPlayerId,         \* this.myPlayerId
    myPlayer,           \* this.myPlayer
    npcs,               \* this.npcs: ordered map, a sequence of <<id, npc>>
    viewport,           \* this.viewport; x2, y2 hold twice viewport.x, viewport.y
    now,                \* what Date.now() returns (ms since the page was loaded)
    frameScheduled      \* whether a requestAnimationFrame(gameLoop) callback is pending

connVars == <<sockets, ws, reconnectAttempts, timers>>
histVars == <<fails, scheduled>>
gameVars == <<players, avatars, myPlayerId, myPlayer, npcs, viewport>>
envVars == <<window, now, frameScheduled>>
vars == <<sockets, ws, reconnectAttempts, timers, fails, scheduled, window,
          players, avatars, myPlayerId, myPlayer, npcs, viewport, now, frameScheduled>>

(***************************************************************************)
(* Program constants.                                                      *)
(***************************************************************************)
worldWidth == 2048
worldHeight == 2048
maxReconnectAttempts == 5
reconnectDelay == 2000

(***************************************************************************)
(* Bounds of the model.                                                    *)
(***************************************************************************)
\* Messages recorded per socket; key events stop being generated beyond it.
MaxSent == 2

Max(a, b) == IF a > b THEN a ELSE b
Min(a, b) == IF a < b THEN a ELSE b

(***************************************************************************)
(* JavaScript values.  null is a record of its own so that it can sit in   *)
(* a Map next to objects; a missing id is the string "undefined".          *)
(***************************************************************************)
Null == [t |-> "null"]
NoId == "null"
Truthy(v) == v.t # "null"

(***************************************************************************)
(* JavaScript Map: insertion-ordered, set() on a present key keeps its     *)
(* place.                                                                  *)
(***************************************************************************)
MapHas(m, k) == \E i \in 1..Len(m) : m[i][1] = k
MapGet(m, k) == m[CHOOSE i \in 1..Len(m) : m[i][1] = k][2]
\* Mutant: set() adds an entry whether or not the key is present.
MapSet_Duplicate(m, k, v) == Append(m, <<k, v>>)

MapSet(m, k, v) ==
    IF MapHas(m, k)
    THEN [i \in 1..Len(m) |-> IF m[i][1] = k THEN <<k, v>> ELSE m[i]]
    ELSE Append(m, <<k, v>>)
MapDelete(m, k) ==
    LET keep(e) == e[1] # k IN SelectSeq(m, keep)

(***************************************************************************)
(* The client object.                                                      *)
(***************************************************************************)
This == [sockets |-> sockets, ws |-> ws,
         reconnectAttempts |-> reconnectAttempts, timers |-> timers,
         players |-> players, avatars |-> avatars, myPlayerId |-> myPlayerId,
         myPlayer |-> myPlayer, npcs |-> npcs, viewport |-> viewport,
         now |-> now]

(***************************************************************************)
(* Session: the WebSocket objects and the reconnect timers.                *)
(***************************************************************************)

NewSocket == [readyState |-> "CONNECTING", sent |-> <<>>]
IsLive(sock) == sock.readyState # "CLOSED"
LiveSockets(c) == {s \in 1..Len(c.sockets) : IsLive(c.sockets[s])}

JoinMsg == [action |-> "join_game", arg |-> "Crystal"]
MoveMsg(direction) == [action |-> "move", arg |-> direction]
StopMsg == [action |-> "stop", arg |-> ""]

\* this.ws.send(msg): queued only on an OPEN socket (a CONNECTING socket
\* raises InvalidStateError, a CLOSING or CLOSED one discards the data).
Send(c, msg) ==
    IF c.ws # 0 /\ c.sockets[c.ws].readyState = "OPEN"
    THEN [c EXCEPT !.sockets[c.ws].sent = Append(@, msg)]
    ELSE c

\* Mutant: the budget test admits one attempt too many.
attemptReconnect_OffByOne(c) ==
    IF c.reconnectAttempts <= maxReconnectAttempts
    THEN [c EXCEPT !.reconnectAttempts = @ + 1,
                   !.timers = Append(@, reconnectDelay * (c.reconnectAttempts + 1))]
    ELSE c

\* Mutant: the delay doubles with every attempt.
attemptReconnect_Doubling(c) ==
    IF c.reconnectAttempts < maxReconnectAttempts
    THEN [c EXCEPT !.reconnectAttempts = @ + 1,
                   !.timers = Append(@, reconnectDelay * 2 ^ c.reconnectAttempts)]
    ELSE c

attemptReconnect(c) ==
    IF c.reconnectAttempts < maxReconnectAttempts
    THEN [c EXCEPT !.reconnectAttempts = @ + 1,
                   !.timers = Append(@, reconnectDelay * (c.reconnectAttempts + 1))]
    ELSE c

\* new WebSocket(url) either returns a socket, which replaces this.ws, or
\* raises, which the catch block answers with attemptReconnect().  A closed
\* socket that this.ws no longer names can fire nothing and is dropped.
connectToServer(c, ctorThrows) ==
    IF ctorThrows
    THEN attemptReconnect(c)
    ELSE LET kept == SelectSeq(c.sockets, IsLive)
         IN  [c EXCEPT !.sockets = Append(kept, NewSocket), !.ws = Len(kept) + 1]

joinGame(c) == Send(c, JoinMsg)

\* Mutant: the open handler resets the counter and forgets to join.
onopen_NoJoin(c) == [c EXCEPT !.reconnectAttempts = 0]

\* Mutant: the open handler joins and leaves the counter as it is.
onopen_NoReset(c) == joinGame(c)

onopen(c) == joinGame([c EXCEPT !.reconnectAttempts = 0])

onclose(c) == attemptReconnect(c)

\* Mutant: the error handler schedules a reconnect of its own.
onerror_Reconnects(c) == attemptReconnect(c)

onerror(c) == c

\* The user agent's part of an event on socket s: the readyState it sets
\* before the handlers run.
SetReadyState(c, s, rs) == [c EXCEPT !.sockets[s].readyState = rs]

\* The connection of socket s is gone: readyState CLOSED.  What was sent
\* on it is complete by then (send() queues nothing on a closed socket) and
\* the record of it is dropped.
Closed(c, s) == [c EXCEPT !.sockets[s] = [readyState |-> "CLOSED", sent |-> <<>>]]

\* After its close event a socket other than this.ws is garbage.
Reap(c, s) ==
    IF s = c.ws THEN c
    ELSE [c EXCEPT !.sockets = [i \in 1..(Len(c.sockets) - 1) |->
                                   IF i < s THEN c.sockets[i] ELSE c.sockets[i + 1]],
                   !.ws = IF c.ws > s THEN c.ws - 1 ELSE c.ws]

(***************************************************************************)
(* Keyboard.                                                               *)
(***************************************************************************)
Keys == {"a", "x"}

KeyDirection(key) ==
    CASE key \in {"ArrowUp", "w", "W"} -> "up"
      [] key \in {"ArrowDown", "s", "S"} -> "down"
      [] key \in {"ArrowLeft", "a", "A"} -> "left"
      [] key \in {"ArrowRight", "d", "D"} -> "right"
      [] OTHER -> "none"

stopKeys == {"ArrowUp", "ArrowDown", "ArrowLeft", "ArrowRight",
             "w", "W", "s", "S", "a", "A", "d", "D"}

sendMoveCommand(c, direction) == Send(c, MoveMsg(direction))
sendStopCommand(c) == Send(c, StopMsg)

IsOpen(c) == c.ws # 0 /\ c.sockets[c.ws].readyState = "OPEN"

\* Mutant: the key-down handler does not look at the socket's state.
keydown_NoGuard(c, key) ==
    IF c.ws = 0 \/ KeyDirection(key) = "none" THEN c
    ELSE [c EXCEPT !.sockets[c.ws].sent = Append(@, MoveMsg(KeyDirection(key)))]

keydown(c, key) ==
    IF ~IsOpen(c) THEN c
    ELSE IF KeyDirection(key) # "none" THEN sendMoveCommand(c, KeyDirection(key))
    ELSE c

keyup(c, key) ==
    IF ~IsOpen(c) THEN c
    ELSE IF key \in stopKeys THEN sendStopCommand(c)
    ELSE c


(***************************************************************************)
(* World state: players, avatars, companions, viewport.                    *)
(***************************************************************************)
Ok(g) == [g |-> g, threw |-> FALSE]
Throw(g) == [g |-> g, threw |-> TRUE]

\* Math.max(0, Math.min(v, hi))
Clamp(v, hi) == Max(0, Min(v, hi))

\* viewport.x = clamp(myPlayer.x - viewport.width / 2), in half pixels.
updateViewport(g) ==
    IF ~Truthy(g.myPlayer) THEN g
    ELSE [g EXCEPT
            !.viewport.x2 = Clamp(2 * g.myPlayer.x - g.viewport.width,
                                  2 * (worldWidth - g.viewport.width)),
            !.viewport.y2 = Clamp(2 * g.myPlayer.y - g.viewport.height,
                                  2 * (worldHeight - g.viewport.height))]

\* The handler of window's resize event, up to its draw().
resize(g, size) ==
    updateViewport([g EXCEPT !.viewport.width = size[1], !.viewport.height = size[2]])

\* A companion's x and y are doubles in the code.  Here each is a whole
\* number of steps, Unit steps to the pixel, with a bound beside it: the
\* double of the code lies within xErr (yErr) steps of x (y), and is exactly
\* x (y) when the bound is 0.  A companion is created on whole pixels, so
\* its bounds start at 0; a move adds an irrational amount and a rounding
\* of the double arithmetic, which the bound then records.
Unit == 10

Npc(id, name, x, y, avatar, followDistance, lastUpdate) ==
    [id |-> id, name |-> name, x |-> Unit * x, xErr |-> 0,
     y |-> Unit * y, yErr |-> 0, avatar |-> avatar,
     followDistance |-> followDistance,
     facing |-> "south", isMoving |-> FALSE, animationFrame |-> 0,
     lastUpdate |-> lastUpdate]

\* this.npcAvatars, filled by createNPCAvatars() with three fixed entries,
\* is a function of whether createNPCs() has run and is not kept as state.
createNPCs(g) ==
    IF ~Truthy(g.myPlayer) THEN g
    ELSE LET px == g.myPlayer.x
             py == g.myPlayer.y
             n1 == MapSet(g.npcs, "npc1",
                          Npc("npc1", "Guardian", px - 50, py - 50, "guardian", 100, g.now))
             n2 == MapSet(n1, "npc2",
                          Npc("npc2", "Companion", px + 50, py - 50, "companion", 150, g.now))
             n3 == MapSet(n2, "npc3",
                          Npc("npc3", "Pet", px, py + 50, "pet", 80, g.now))
         IN  [g EXCEPT !.npcs = n3]

(***************************************************************************)
(* The companions' simulation tick (updateNPCs).                           *)
(***************************************************************************)
updateInterval == 100
moveSpeed == 2

Abs(v) == IF v < 0 THEN -v ELSE v

\* Products beyond the range of the checker's integers are kept as
\* <<high, low>>, standing for high * Limb + low with 0 <= low < Limb.
Limb == 32768

\* a * n, for 0 <= a < 2^15 and 0 <= n < 2^31.
WideProduct(a, n) ==
    LET low == a * (n % Limb)
    IN  <<a * (n \div Limb) + low \div Limb, low % Limb>>

\* b * b, for 0 <= b < 2^22.
WideSquare(b) ==
    LET b1 == b \div Limb
        b0 == b % Limb
    IN  <<b1 * b1 * Limb + 2 * b1 * b0 + (b0 * b0) \div Limb, (b0 * b0) % Limb>>

WideLeq(u, v) == u[1] < v[1] \/ (u[1] = v[1] /\ u[2] <= v[2])

\* moveSpeed * |d| / sqrt(n) in steps, rounded to the nearest step, for
\* n = dx * dx + dy * dy and d one of dx, dy: the number of k with
\* k - 1/2 <= moveSpeed * Unit * |d| / sqrt(n), compared on the squares.
\* (The quotient is never half way between two steps: a point of the unit
\* circle with rational coordinates has odd denominators.)
StepSize(d, n) ==
    Cardinality({k \in 1..(moveSpeed * Unit) :
        WideLeq(WideProduct((2 * k - 1) * (2 * k - 1), n),
                WideSquare(2 * moveSpeed * Unit * Abs(d)))})

\* Math.cos(angle) * moveSpeed for d = dx, Math.sin(angle) * moveSpeed for
\* d = dy, with angle = Math.atan2(dy, dx), to the nearest step.
Step(d, n) == IF d < 0 THEN -StepSize(d, n) ELSE StepSize(d, n)

\* dx, dy of updateNPCs, in steps, computed on x and y.
DeltaX(g, npc) == Unit * g.myPlayer.x - npc.x
DeltaY(g, npc) == Unit * g.myPlayer.y - npc.y

Exact(npc) == npc.xErr = 0 /\ npc.yErr = 0

\* The pairs <<dx, dy>> that the doubles dx and dy of the code may lie at:
\* the one pair when the companion's position is exact, and otherwise every
\* pair within the bounds.  A test the code makes on dx and dy comes out in
\* the model as each result it has on one of these pairs.
Deltas(g, npc) ==
    ((DeltaX(g, npc) - npc.xErr)..(DeltaX(g, npc) + npc.xErr))
        \X ((DeltaY(g, npc) - npc.yErr)..(DeltaY(g, npc) + npc.yErr))

\* distance > npc.followDistance, compared on the squares.
TooFar(dx, dy, followDistance) ==
    dx * dx + dy * dy > (Unit * followDistance) * (Unit * followDistance)

\* Mutant: equal magnitudes count as horizontal.
Facing_TieHorizontal(dx, dy) ==
    IF Abs(dx) >= Abs(dy)
    THEN (IF dx > 0 THEN "east" ELSE "west")
    ELSE (IF dy > 0 THEN "south" ELSE "north")

\* if (Math.abs(dx) > Math.abs(dy)) ... else ...
Facing(dx, dy) ==
    IF Abs(dx) > Abs(dy)
    THEN (IF dx > 0 THEN "east" ELSE "west")
    ELSE (IF dy > 0 THEN "south" ELSE "north")

\* npc.x + Math.cos(angle) * moveSpeed for dx = 0: the cosine of the double
\* nearest pi/2 (or -pi/2) is 6.1e-17, so the term is 1.2e-16.  For v a
\* whole number of pixels the sum is v when half the spacing of the doubles
\* between v and v + 1 exceeds the term: from 2 up, and from -3 down.
AbsorbsCos(v) == v >= 2 * Unit \/ v <= -3 * Unit

\* npc.y + Math.sin(angle) * moveSpeed for dy = 0 and dx < 0: the sine of
\* the double nearest pi is 1.2e-16, so the term is 2.4e-16, and the sum is
\* v from 4 up and from -5 down (-4 + 2.4e-16 is -3.9999999999999996).
AbsorbsSin(v) == v >= 4 * Unit \/ v <= -5 * Unit

\* The bound on npc.x after `npc.x += Math.cos(angle) * moveSpeed`.  From an
\* exact position the sum is exact in two cases: dy = 0, where the cosine
\* is 1 or -1, and dx = 0, where the sum absorbs the term.  Otherwise the
\* sum is within a step of the rounded one: half a step of rounding, and
\* less than half a step from the bounds on dx and dy while these stay
\* below Unit.
MovedErrX(npc, dx, dy) ==
    IF Exact(npc) /\ dy = 0 THEN 0
    ELSE IF Exact(npc) /\ dx = 0 /\ AbsorbsCos(npc.x) THEN 0
    ELSE npc.xErr + 1

\* The bound on npc.y after `npc.y += Math.sin(angle) * moveSpeed`: exact
\* for dx = 0 (the sine is 1 or -1) and for dy = 0 (the sine of 0 is 0 for
\* dx > 0, and the sum absorbs the term for dx < 0).
MovedErrY(npc, dx, dy) ==
    IF Exact(npc) /\ dx = 0 THEN 0
    ELSE IF Exact(npc) /\ dy = 0 /\ (dx > 0 \/ AbsorbsSin(npc.y)) THEN 0
    ELSE npc.yErr + 1

\* The results `distance > npc.followDistance` may have for a companion.
FarTests(g, npc) ==
    {TooFar(d[1], d[2], npc.followDistance) : d \in Deltas(g, npc)}

\* The facings the code may give a companion that it moves.
Facings(g, npc) ==
    {Facing(d[1], d[2]) :
        d \in {e \in Deltas(g, npc) : TooFar(e[1], e[2], npc.followDistance)}}

\* The branch of a companion that is too far: Math.cos(angle) * moveSpeed is
\* moveSpeed * dx / distance, Math.sin(angle) * moveSpeed is
\* moveSpeed * dy / distance.  facing is what lines 326-330 come to.
MoveNpc(g, npc, facing) ==
    LET dx == DeltaX(g, npc)
        dy == DeltaY(g, npc)
        n == dx * dx + dy * dy
    IN  [npc EXCEPT !.x = @ + Step(dx, n),
                    !.xErr = MovedErrX(npc, dx, dy),
                    !.y = @ + Step(dy, n),
                    !.yErr = MovedErrY(npc, dx, dy),
                    !.facing = facing,
                    !.isMoving = TRUE,
                    !.animationFrame = (@ + 1) % 3]

RestNpc(npc) == [npc EXCEPT !.isMoving = FALSE, !.animationFrame = 0]

\* The bound on Math.max(0, Math.min(v, hi)): a double known to lie at or
\* beyond an edge becomes the edge exactly.
ClampErr(v, e, hi) == IF v - e >= hi \/ v + e <= 0 THEN 0 ELSE e

\* The companion after the if / else of lines 317-339: moved with one of
\* the facings, or at rest.
Acted(g, npc) ==
    {MoveNpc(g, npc, facing) : facing \in Facings(g, npc)}
        \cup (IF FALSE \in FarTests(g, npc) THEN {RestNpc(npc)} ELSE {})

\* Mutant: the tick without its final clamp to the world.
TickNpc_NoClamp(g, npc) ==
    {[acted EXCEPT !.lastUpdate = g.now] : acted \in Acted(g, npc)}

\* The body of the loop of updateNPCs for a companion whose tick is due:
\* the set of its results, one for an exact position and one for each way
\* the code's tests may come out otherwise.
TickNpc(g, npc) ==
    {[acted EXCEPT !.x = Clamp(@, Unit * worldWidth),
                   !.xErr = ClampErr(acted.x, @, Unit * worldWidth),
                   !.y = Clamp(@, Unit * worldHeight),
                   !.yErr = ClampErr(acted.y, @, Unit * worldHeight),
                   !.lastUpdate = g.now] : acted \in Acted(g, npc)}

\* Mutant: every frame ticks every companion.
Due_EveryFrame(g, npc) == TRUE

\* if (now - npc.lastUpdate < updateInterval) continue;
Due(g, npc) == ~(g.now - npc.lastUpdate < updateInterval)

\* The loop of updateNPCs from the i-th companion on: the set of the
\* results for this.npcs.
RECURSIVE UpdateFrom(_, _)
UpdateFrom(g, i) ==
    IF i > Len(g.npcs) THEN {g.npcs}
    ELSE {[rest EXCEPT ![i] = <<g.npcs[i][1], ticked>>] :
            rest \in UpdateFrom(g, i + 1),
            ticked \in (IF Due(g, g.npcs[i][2]) THEN TickNpc(g, g.npcs[i][2])
                        ELSE {g.npcs[i][2]})}

\* updateNPCs(): the set of its results.
updateNPCs(g) ==
    IF ~Truthy(g.myPlayer) THEN {g}
    ELSE IF Len(g.npcs) = 0 THEN {g}
    ELSE {[g EXCEPT !.npcs = updated] : updated \in UpdateFrom(g, 1)}

\* An avatar definition is null or an object: hasFrames says whether
\* avatarData.frames is an object, images whether avatarData.images has
\* been set.  Reading null.images raises; deriving the images of a
\* definition without frames sets images = {} and then raises in
\* Object.entries(undefined).
RECURSIVE LoadFrom(_, _)
LoadFrom(av, i) ==
    IF i > Len(av) THEN [avatars |-> av, threw |-> FALSE]
    ELSE IF ~Truthy(av[i][2]) THEN [avatars |-> av, threw |-> TRUE]
    ELSE IF av[i][2].images THEN LoadFrom(av, i + 1)
    ELSE LET marked == [av EXCEPT ![i][2].images = TRUE]
         IN  IF av[i][2].hasFrames THEN LoadFrom(marked, i + 1)
             ELSE [avatars |-> marked, threw |-> TRUE]

loadAvatarImages(g) ==
    LET r == LoadFrom(g.avatars, 1)
    IN  [g |-> [g EXCEPT !.avatars = r.avatars], threw |-> r.threw]

\* draw() changes nothing; drawPlayer(player) reads player.avatar and so
\* raises on a null entry of this.players.
DrawThrows(g) == \E i \in 1..Len(g.players) : ~Truthy(g.players[i][2])
draw(g) == [g |-> g, threw |-> DrawThrows(g)]

\* The frame callback: updateNPCs(), draw(), and then, unless draw() raised,
\* requestAnimationFrame(gameLoop).
gameLoop(g) ==
    {[g |-> g1, rescheduled |-> ~draw(g1).threw] : g1 \in updateNPCs(g)}

\* The loop of handleJoinGameSuccess over Object.entries(message.players).
RECURSIVE StorePlayers(_, _, _)
StorePlayers(g, entries, i) ==
    IF i > Len(entries) THEN g
    ELSE StorePlayers(
            [g EXCEPT !.players = MapSet(@, entries[i][1], entries[i][2]),
                      !.myPlayer = IF entries[i][1] = g.myPlayerId
                                   THEN entries[i][2] ELSE @],
            entries, i + 1)

RECURSIVE StoreAvatars(_, _, _)
StoreAvatars(g, entries, i) ==
    IF i > Len(entries) THEN g
    ELSE StoreAvatars([g EXCEPT !.avatars = MapSet(@, entries[i][1], entries[i][2])],
                      entries, i + 1)

handleJoinGameSuccess(g, message) ==
    LET g1 == [g EXCEPT !.myPlayerId = message.playerId]
    IN  IF ~message.hasPlayers THEN Throw(g1)
        ELSE LET g2 == StorePlayers(g1, message.players, 1)
             IN  IF ~message.hasAvatars THEN Throw(g2)
                 ELSE LET g3 == StoreAvatars(g2, message.avatars, 1)
                          r4 == loadAvatarImages(g3)
                      IN  IF r4.threw THEN r4
                          ELSE LET g6 == updateViewport(createNPCs(r4.g))
                               IN  IF ~Truthy(g6.myPlayer) THEN Throw(g6)
                                   ELSE draw(g6)

handlePlayerJoined(g, message) ==
    IF ~message.hasPlayer THEN Throw(g)
    ELSE LET g1 == [g EXCEPT !.players = MapSet(@, message.player.id, message.player)]
         IN  IF ~message.hasAvatar THEN Throw(g1)
             ELSE LET g2 == [g1 EXCEPT !.avatars =
                                 MapSet(@, message.avatar.name, message.avatar)]
                      r3 == loadAvatarImages(g2)
                  IN  IF r3.threw THEN r3 ELSE draw(r3.g)

\* The loop of handlePlayersMoved over Object.entries(message.players).
RECURSIVE MovePlayers(_, _, _)
MovePlayers(g, entries, i) ==
    IF i > Len(entries) THEN g
    ELSE LET g1 == [g EXCEPT !.players = MapSet(@, entries[i][1], entries[i][2])]
             g2 == IF entries[i][1] = g.myPlayerId
                   THEN updateViewport([g1 EXCEPT !.myPlayer = entries[i][2]])
                   ELSE g1
         IN  MovePlayers(g2, entries, i + 1)

\* Mutant: the local player's new record is kept but the viewport is not
\* moved (the loop of handleJoinGameSuccess, which leaves that to its caller).
handlePlayersMoved_NoViewport(g, message) ==
    IF ~message.hasPlayers THEN Throw(g)
    ELSE draw(StorePlayers(g, message.players, 1))

handlePlayersMoved(g, message) ==
    IF ~message.hasPlayers THEN Throw(g)
    ELSE draw(MovePlayers(g, message.players, 1))

handlePlayerLeft(g, message) ==
    draw([g EXCEPT !.players = MapDelete(@, message.playerId)])

\* Mutant: a rejected join is answered by joining again.
handleServerMessage_RetryJoin(g, message) ==
    CASE message.action = "join_game" ->
            IF message.success THEN handleJoinGameSuccess(g, message) ELSE Ok(joinGame(g))
      [] message.action = "player_joined" -> handlePlayerJoined(g, message)
      [] message.action = "players_moved" -> handlePlayersMoved(g, message)
      [] message.action = "player_left" -> handlePlayerLeft(g, message)
      [] OTHER -> Ok(g)

handleServerMessage(g, message) ==
    CASE message.action = "join_game" ->
            IF message.success THEN handleJoinGameSuccess(g, message) ELSE Ok(g)
      [] message.action = "player_joined" -> handlePlayerJoined(g, message)
      [] message.action = "players_moved" -> handlePlayersMoved(g, message)
      [] message.action = "player_left" -> handlePlayerLeft(g, message)
      [] OTHER -> Ok(g)

\* ws.onmessage: a payload is text that JSON.parse rejects, or the JSON
\* null (reading message.action raises), or a JSON number (message.action is
\* undefined), or an object.  Whatever is raised is caught and logged:
\* raised says that the catch block ran, and nothing escapes the callback.
\* Mutant: the handler has no try/catch.
onmessage_NoCatch(g, payload) ==
    IF payload.json \in {"invalid", "null"}
    THEN [g |-> g, raised |-> TRUE, escaped |-> TRUE]
    ELSE LET r == handleServerMessage(g, payload)
         IN  [g |-> r.g, raised |-> r.threw, escaped |-> r.threw]

onmessage(g, payload) ==
    IF payload.json = "invalid" THEN [g |-> g, raised |-> TRUE, escaped |-> FALSE]
    ELSE IF payload.json = "null" THEN [g |-> g, raised |-> TRUE, escaped |-> FALSE]
    ELSE LET r == handleServerMessage(g, payload)
         IN  [g |-> r.g, raised |-> r.threw, escaped |-> FALSE]


(***************************************************************************)
(* Inputs: what the server, the user and the browser can hand the client.  *)
(***************************************************************************)
Ids == {"p1", "p2"}

\* PosA: near the left edge, mid-height.  PosB: near the right edge and
\* below the world (the server is not bound to the world's rectangle).
PosA == <<10, 900>>
PosB == <<2040, 3000>>

Player(id, pos) == [t |-> "obj", id |-> id, x |-> pos[1], y |-> pos[2]]

\* What the server may send as the entry of a player id.
PlayerData(id) ==
    IF id = "p1" THEN {Player(id, PosA), Player(id, PosB), Null}
    ELSE {Player(id, PosA)}

\* The players objects of join_game and players_moved, in key order.
PlayerMapInputs ==
    {<<>>}
    \cup {<< <<i, d>> >> : i \in Ids, d \in PlayerData("p1") \cup PlayerData("p2")}
    \cup {<< <<i, d>>, <<j, e>> >> :
            i \in Ids, j \in Ids, d \in PlayerData("p1") \cup PlayerData("p2"),
            e \in PlayerData("p1") \cup PlayerData("p2")}

WellKeyed(m) ==
    /\ \A i \in 1..Len(m) : m[i][2] \in PlayerData(m[i][1])
    /\ \A i, j \in 1..Len(m) : i # j => m[i][1] # m[j][1]

PlayerMaps == {m \in PlayerMapInputs : WellKeyed(m)}

Avatar(name, hasFrames) ==
    [t |-> "obj", name |-> name, hasFrames |-> hasFrames, images |-> FALSE]
AvatarInputs == {Avatar("a1", TRUE), Avatar("a1", FALSE)}
\* The avatars objects of join_game: empty, one definition, or a null entry.
AvatarMaps == {<<>>, << <<"a1", Null>> >>, << <<"a1", Avatar("a1", TRUE)>> >>}

WindowSizes == {<<800, 600>>, <<2560, 1201>>}

BaseMsg == [json |-> "object", action |-> "undefined", success |-> FALSE,
            playerId |-> "undefined",
            hasPlayers |-> FALSE, players |-> <<>>,
            hasAvatars |-> FALSE, avatars |-> <<>>,
            hasPlayer |-> FALSE, player |-> Null,
            hasAvatar |-> FALSE, avatar |-> Null]

InvalidJson == [BaseMsg EXCEPT !.json = "invalid"]
JsonNull == [BaseMsg EXCEPT !.json = "null"]
JsonNumber == [BaseMsg EXCEPT !.json = "number"]
UnknownAction == [BaseMsg EXCEPT !.action = "foo"]
NoAction == BaseMsg
IgnoredInputs == {InvalidJson, JsonNull, JsonNumber, UnknownAction, NoAction}

JoinRejected == [BaseMsg EXCEPT !.action = "join_game", !.success = FALSE]

WithPlayers(m, ps) == [m EXCEPT !.hasPlayers = TRUE, !.players = ps]
WithAvatars(m, as) == [m EXCEPT !.hasAvatars = TRUE, !.avatars = as]

JoinOkBase(id) == [BaseMsg EXCEPT !.action = "join_game", !.success = TRUE, !.playerId = id]
JoinOkInputs ==
    {JoinOkBase(id) : id \in Ids}
    \cup {WithPlayers(JoinOkBase(id), ps) : id \in Ids, ps \in PlayerMaps}
    \cup {WithAvatars(WithPlayers(JoinOkBase(id), ps), as) :
            id \in Ids, ps \in PlayerMaps, as \in AvatarMaps}

MovedBase == [BaseMsg EXCEPT !.action = "players_moved"]
MovedInputs == {MovedBase} \cup {WithPlayers(MovedBase, ps) : ps \in PlayerMaps}

JoinedBase == [BaseMsg EXCEPT !.action = "player_joined"]
PlayerObjects == {d \in PlayerData("p1") \cup PlayerData("p2") : Truthy(d)}
JoinedInputs ==
    {JoinedBase}
    \cup {[JoinedBase EXCEPT !.hasPlayer = TRUE, !.player = d] : d \in PlayerObjects}
    \cup {[JoinedBase EXCEPT !.hasPlayer = TRUE, !.player = d,
                             !.hasAvatar = TRUE, !.avatar = a] :
            d \in PlayerObjects, a \in AvatarInputs}

LeftInputs == {[BaseMsg EXCEPT !.action = "player_left", !.playerId = id] :
                id \in Ids \cup {"undefined"}}

Payloads == IgnoredInputs \cup {JoinRejected} \cup JoinOkInputs \cup MovedInputs
            \cup JoinedInputs \cup LeftInputs

(***************************************************************************)
(* Actions: one per callback.                                              *)
(***************************************************************************)
\* The fields a callback can assign (the clock, This.now, is only read).
SetThis(g) ==
    /\ sockets' = g.sockets
    /\ ws' = g.ws
    /\ reconnectAttempts' = g.reconnectAttempts
    /\ timers' = g.timers
    /\ players' = g.players
    /\ avatars' = g.avatars
    /\ myPlayerId' = g.myPlayerId
    /\ myPlayer' = g.myPlayer
    /\ npcs' = g.npcs
    /\ viewport' = g.viewport

\* The fields the constructor sets, after setupCanvas() has sized the viewport.
Constructed(size) ==
    [sockets |-> <<>>, ws |-> 0, reconnectAttempts |-> 0, timers |-> <<>>,
     players |-> <<>>, avatars |-> <<>>, myPlayerId |-> NoId, myPlayer |-> Null,
     npcs |-> <<>>,
     viewport |-> [x2 |-> 0, y2 |-> 0, width |-> size[1], height |-> size[2]],
     now |-> 0]

\* The state init() leaves: startGameLoop() has requested the first frame
\* and connectToServer() has run once.
Init ==
    \E size \in WindowSizes, ctorThrows \in BOOLEAN :
        LET g == connectToServer(Constructed(size), ctorThrows)
        IN  /\ sockets = g.sockets
            /\ ws = g.ws
            /\ reconnectAttempts = g.reconnectAttempts
            /\ timers = g.timers
            /\ players = g.players
            /\ avatars = g.avatars
            /\ myPlayerId = g.myPlayerId
            /\ myPlayer = g.myPlayer
            /\ npcs = g.npcs
            /\ viewport = g.viewport
            /\ window = size
            /\ now = 0
            /\ frameScheduled = TRUE
            /\ fails = IF ctorThrows THEN 1 ELSE 0
            /\ scheduled = Len(g.timers)

\* The open event of socket s.
SocketOpen ==
    \E s \in 1..Len(sockets) :
        /\ sockets[s].readyState = "CONNECTING"
        /\ SetThis(onopen(SetReadyState(This, s, "OPEN")))
        /\ fails' = 0
        /\ scheduled' = 0
        /\ UNCHANGED envVars

\* The server starts the closing handshake: no event, readyState CLOSING.
SocketClosing ==
    \E s \in 1..Len(sockets) :
        /\ sockets[s].readyState = "OPEN"
        /\ SetThis(SetReadyState(This, s, "CLOSING"))
        /\ UNCHANGED <<histVars, envVars>>

\* The connection of socket s ends cleanly: readyState CLOSED, close event.
SocketClose ==
    \E s \in 1..Len(sockets) :
        /\ sockets[s].readyState \in {"OPEN", "CLOSING"}
        /\ LET g0 == Closed(This, s)
               g1 == onclose(g0)
           IN  /\ SetThis(Reap(g1, s))
               /\ fails' = fails + 1
               /\ scheduled' = scheduled + (Len(g1.timers) - Len(g0.timers))
        /\ UNCHANGED envVars

\* The connection of socket s fails (never established, or dropped):
\* readyState CLOSED, then the error event, then the close event.
SocketFail ==
    \E s \in 1..Len(sockets) :
        /\ IsLive(sockets[s])
        /\ LET g0 == Closed(This, s)
               g1 == onclose(onerror(g0))
           IN  /\ SetThis(Reap(g1, s))
               /\ fails' = fails + 1
               /\ scheduled' = scheduled + (Len(g1.timers) - Len(g0.timers))
        /\ UNCHANGED envVars

\* A reconnect timer fires: connectToServer().
TimerFire ==
    \E i \in 1..Len(timers), ctorThrows \in BOOLEAN :
        /\ LET g0 == [This EXCEPT !.timers = [j \in 1..(Len(timers) - 1) |->
                                                 IF j < i THEN timers[j] ELSE timers[j + 1]]]
               g1 == connectToServer(g0, ctorThrows)
           IN  /\ SetThis(g1)
               /\ fails' = IF ctorThrows THEN fails + 1 ELSE fails
               /\ scheduled' = scheduled + (Len(g1.timers) - Len(g0.timers))
        /\ UNCHANGED envVars

KeyDown ==
    \E key \in Keys :
        /\ IsOpen(This) => Len(sockets[ws].sent) < MaxSent
        /\ SetThis(keydown(This, key))
        /\ UNCHANGED <<histVars, envVars>>

KeyUp ==
    \E key \in Keys :
        /\ IsOpen(This) => Len(sockets[ws].sent) < MaxSent
        /\ SetThis(keyup(This, key))
        /\ UNCHANGED <<histVars, envVars>>

\* The window is resized (the handler's closing draw() changes nothing).
Resize ==
    \E size \in WindowSizes \ {window} :
        /\ window' = size
        /\ SetThis(resize(This, size))
        /\ UNCHANGED <<histVars, now, frameScheduled>>

(***************************************************************************)
(* The animation loop and the clock.                                       *)
(***************************************************************************)
\* The clock moves ClockStep ms at a time.  It stops advancing at MaxNow,
\* and at MaxFrameNow where the companions are followed for three moves.
MaxNow == 200
MaxFrameNow == 300
ClockStep == 50

\* PosC: level with PosA's third companion on both axes; PosD: east of
\* PosA; PosE: north of PosB; PosF: 82 pixels from PosA's third companion,
\* (18, 80) away, so that one move of 2 pixels brings the companion to its
\* follow distance of 80, which the double arithmetic may miss either way;
\* PosG: (-200, -200) from where PosB's third companion stands after the
\* clamp to the world's edge and one move of 2 pixels north towards PosE.
PosC == <<210, 1150>>
PosD == <<900, 900>>
PosE == <<2040, 100>>
PosF == <<28, 1030>>
PosG == <<1840, 1846>>
FramePositions == {PosA, PosB, PosC, PosD, PosE, PosF, PosG}

\* A frame callback runs.
Frame ==
    /\ frameScheduled
    /\ \E r \in gameLoop(This) :
          /\ SetThis(r.g)
          /\ frameScheduled' = r.rescheduled
    /\ UNCHANGED <<histVars, window, now>>

\* Time passes, up to a limit.
Tick(limit) ==
    /\ now < limit
    /\ now' = now + ClockStep
    /\ UNCHANGED <<sockets, ws, reconnectAttempts, timers, histVars, window,
                   players, avatars, myPlayerId, myPlayer, npcs, viewport,
                   frameScheduled>>

ClockTick == Tick(MaxNow)

(***************************************************************************)
(* Spec: the whole client.  Every callback can run: the sockets' events,   *)
(* the reconnect timers, the keys, the resize, the frames, and time        *)
(* passes.  The server's messages are a join success and two moves.        *)
(***************************************************************************)
SessionPayloads ==
    {WithAvatars(WithPlayers(JoinOkBase("p1"), << <<"p1", Player("p1", PosA)>> >>), <<>>),
     WithPlayers(MovedBase, << <<"p1", Player("p1", PosD)>> >>),
     WithPlayers(MovedBase, << <<"p1", Null>> >>)}

\* The message event of an open socket.
SessionReceive ==
    \E s \in 1..Len(sockets), payload \in SessionPayloads :
        /\ sockets[s].readyState = "OPEN"
        /\ SetThis(onmessage(This, payload).g)
        /\ UNCHANGED <<histVars, envVars>>

Next ==
    \/ SocketOpen
    \/ SocketClosing
    \/ SocketClose
    \/ SocketFail
    \/ TimerFire
    \/ SessionReceive
    \/ KeyDown
    \/ KeyUp
    \/ Resize
    \/ Frame
    \/ ClockTick

Spec == Init /\ [][Next]_vars

(***************************************************************************)
(* MessageSpec: one connection that stays open, on which the server sends  *)
(* every payload of Payloads; the window is resized, frames run and time   *)
(* passes.                                                                 *)
(***************************************************************************)
MessageInit == Init /\ ws # 0

\* The server assigns the id p1.
MessagePayloads ==
    {payload \in Payloads : payload.action = "join_game" => payload.playerId # "p2"}

MessageReceive ==
    \E payload \in MessagePayloads :
        /\ IsOpen(This)
        /\ SetThis(onmessage(This, payload).g)
        /\ UNCHANGED <<histVars, envVars>>

MessageNext ==
    \/ SocketOpen
    \/ MessageReceive
    \/ Resize
    \/ Frame
    \/ ClockTick

MessageSpec == MessageInit /\ [][MessageNext]_vars

(***************************************************************************)
(* FrameSpec: one connection that stays open in a window of 800 x 600; the *)
(* server places the local player and moves it about the world, frames run *)
(* and time passes.                                                        *)
(***************************************************************************)
FramePayloads ==
    {WithAvatars(WithPlayers(JoinOkBase("p1"), << <<"p1", Player("p1", pos)>> >>), <<>>) :
        pos \in {PosA, PosB}}
    \cup {WithPlayers(MovedBase, << <<"p1", Player("p1", pos)>> >>) : pos \in FramePositions}
    \cup {WithPlayers(MovedBase, << <<"p1", Null>> >>)}

FrameInit == Init /\ ws # 0 /\ window = <<800, 600>>

FrameReceive ==
    \E payload \in FramePayloads :
        /\ IsOpen(This)
        /\ SetThis(onmessage(This, payload).g)
        /\ UNCHANGED <<histVars, envVars>>

FrameClockTick == Tick(MaxFrameNow)

FrameNext ==
    \/ SocketOpen
    \/ FrameReceive
    \/ Frame
    \/ FrameClockTick

FrameSpec == FrameInit /\ [][FrameNext]_vars


(***************************************************************************)
(* Properties.                                                             *)
(***************************************************************************)
SomeSocketOpen == \E s \in 1..Len(sockets) : sockets[s].readyState = "OPEN"

\* The origin (in half pixels) that centres a viewport of the given size
\* on coordinate p, kept inside a world of the given extent; 0 when the
\* world is smaller than the viewport.
ExpectedOrigin(p, size, world) ==
    IF world < size THEN 0
    ELSE IF 2 * p - size < 0 THEN 0
    ELSE IF 2 * p - size > 2 * (world - size) THEN 2 * (world - size)
    ELSE 2 * p - size

\* The 6th consecutive failure has happened.
GaveUp == fails > maxReconnectAttempts

\* C1: while connection attempts keep failing with no open in between,
\* exactly min(failures, 5) reconnect timers are scheduled and the counter
\* never exceeds 5; after the 6th consecutive failure no timer is pending,
\* no socket is live, and the session part of the client never changes again.
C1_ReconnectBudget ==
    /\ [](/\ reconnectAttempts <= maxReconnectAttempts
          /\ scheduled = Min(fails, maxReconnectAttempts)
          /\ scheduled = reconnectAttempts
          /\ GaveUp => timers = <<>> /\ LiveSockets(This) = {})
    /\ [][GaveUp => GaveUp' /\ UNCHANGED connVars]_vars

C1_Witness ==
    /\ fails = maxReconnectAttempts + 1
    /\ scheduled = maxReconnectAttempts
    /\ timers = <<>>
    /\ LiveSockets(This) = {}

\* C2: at most one reconnect timer is pending, at most one socket is
\* connecting, open or closing, and a timer is pending only while no socket
\* is (a failure's error and close events together schedule one attempt).
C2_NoConcurrentReconnect ==
    /\ Len(timers) <= 1
    /\ Cardinality(LiveSockets(This)) <= 1
    /\ timers # <<>> => LiveSockets(This) = {}
    /\ \A s \in 1..Len(sockets) : IsLive(sockets[s]) => s = ws

\* The second socket in a row has closed, and the one timer after it is pending.
C2_Witness ==
    /\ ws # 0
    /\ sockets[ws].readyState = "CLOSED"
    /\ reconnectAttempts = 2
    /\ timers = <<2 * reconnectDelay>>

\* C3: a socket that has not opened has sent nothing; a socket that has
\* opened sent the join request {action: "join_game", username: "Crystal"}
\* first, before any move or stop, and never again.
C3_JoinOncePerOpen ==
    \A s \in 1..Len(sockets) :
        LET sent == sockets[s].sent
        IN  /\ sockets[s].readyState = "CONNECTING" => sent = <<>>
            /\ sockets[s].readyState \in {"OPEN", "CLOSING"} => sent # <<>>
            /\ sent # <<>> => sent[1] = JoinMsg
            /\ \A i \in 2..Len(sent) : sent[i].action \in {"move", "stop"}

C3_Witness ==
    /\ ws # 0
    /\ sockets[ws].readyState = "OPEN"
    /\ sockets[ws].sent = <<JoinMsg, MoveMsg("left")>>

\* C4: while a socket is open, a payload that is not JSON, or whose action
\* is none of the four known ones, leaves every field of the client as it
\* was (stores, local player, viewport, sockets, timers, counter), and no
\* exception leaves the message callback.
C4_IgnoredMessageNoEffect ==
    SomeSocketOpen =>
        \A payload \in IgnoredInputs :
            /\ onmessage(This, payload).g = This
            /\ ~onmessage(This, payload).escaped

\* A populated client with an open connection, on which an unparsable
\* payload raised in the callback and an unknown action did not.
C4_Witness ==
    /\ IsOpen(This)
    /\ Truthy(myPlayer)
    /\ npcs # <<>>
    /\ onmessage(This, InvalidJson).raised
    /\ ~onmessage(This, UnknownAction).raised
    /\ onmessage(This, UnknownAction).g = This

\* C5: a payload whose handling raises is dropped as a whole: the client is
\* exactly as it was before the message.
C5_FailedMessageDroppedWhole ==
    SomeSocketOpen =>
        \A payload \in Payloads :
            onmessage(This, payload).raised => onmessage(This, payload).g = This

\* C6: a join result with success false changes nothing: no join request is
\* sent again, no timer is scheduled, the socket stays open, and the stores,
\* local player and viewport are as they were; nothing is raised.
C6_JoinRejectedNoRetry ==
    SomeSocketOpen =>
        /\ onmessage(This, JoinRejected).g = This
        /\ ~onmessage(This, JoinRejected).raised

\* The join request is out, nothing has been assigned, and the rejection
\* leaves the log of sent messages at that one request.
C6_Witness ==
    /\ IsOpen(This)
    /\ sockets[ws].sent = <<JoinMsg>>
    /\ myPlayerId = NoId
    /\ onmessage(This, JoinRejected).g.sockets[ws].sent = <<JoinMsg>>


\* A join success as the protocol describes it: a players map and an
\* avatars map whose definitions carry frames.
WellFormedJoin(payload) ==
    /\ payload.hasPlayers
    /\ payload.hasAvatars
    /\ \A i \in 1..Len(payload.avatars) :
            Truthy(payload.avatars[i][2]) /\ payload.avatars[i][2].hasFrames

\* C7: after a join success with playerId p whose players map holds an
\* entry for p at (x, y): myPlayerId is p, myPlayer is that entry, every
\* entry of the message is in the store, and the viewport origin is
\* (x - width/2, y - height/2) clamped per axis to [0, world - viewport].
C7_JoinSuccessCentres ==
    SomeSocketOpen =>
        \A payload \in JoinOkInputs :
            (/\ WellFormedJoin(payload)
             /\ MapHas(payload.players, payload.playerId)
             /\ Truthy(MapGet(payload.players, payload.playerId)))
            => LET me == MapGet(payload.players, payload.playerId)
                   after == onmessage(This, payload).g
               IN  /\ after.myPlayerId = payload.playerId
                   /\ after.myPlayer = me
                   /\ \A i \in 1..Len(payload.players) :
                        /\ MapHas(after.players, payload.players[i][1])
                        /\ MapGet(after.players, payload.players[i][1])
                             = payload.players[i][2]
                   /\ after.viewport =
                        [x2 |-> ExpectedOrigin(me.x, viewport.width, worldWidth),
                         y2 |-> ExpectedOrigin(me.y, viewport.height, worldHeight),
                         width |-> viewport.width, height |-> viewport.height]

\* p1 has joined at PosA in an 800 x 600 window: clamped to the left edge,
\* centred vertically, companions created.
C7_Witness ==
    /\ myPlayerId = "p1"
    /\ myPlayer = Player("p1", PosA)
    /\ MapHas(players, "p1")
    /\ npcs # <<>>
    /\ viewport = [x2 |-> 0, y2 |-> 2 * PosA[2] - 600, width |-> 800, height |-> 600]

\* C8: after a players_moved batch that holds an entry with a position for
\* the local player's id, myPlayer is that entry and the viewport origin is
\* recomputed from it, whatever else the batch holds and in whatever order.
C8_MovedFollowsLocal ==
    SomeSocketOpen =>
        \A payload \in MovedInputs :
            (/\ payload.hasPlayers
             /\ MapHas(payload.players, myPlayerId)
             /\ Truthy(MapGet(payload.players, myPlayerId)))
            => LET me == MapGet(payload.players, myPlayerId)
                   after == onmessage(This, payload).g
               IN  /\ after.myPlayer = me
                   /\ MapGet(after.players, myPlayerId) = me
                   /\ after.viewport =
                        [x2 |-> ExpectedOrigin(me.x, viewport.width, worldWidth),
                         y2 |-> ExpectedOrigin(me.y, viewport.height, worldHeight),
                         width |-> viewport.width, height |-> viewport.height]

\* p1 joined at PosA (the companions stand where they were created) and
\* was then moved to PosB together with p2: the viewport is at PosB's clamp.
C8_Witness ==
    /\ myPlayerId = "p1"
    /\ myPlayer = Player("p1", PosB)
    /\ players = << <<"p1", Player("p1", PosB)>>, <<"p2", Player("p2", PosA)>> >>
    /\ npcs # <<>>
    /\ MapGet(npcs, "npc3").x = Unit * PosA[1]
    /\ viewport = [x2 |-> 2 * (worldWidth - 800), y2 |-> 2 * (worldHeight - 600),
                   width |-> 800, height |-> 600]

\* Whether origin o (half pixels) keeps a viewport of the given size inside
\* a world of the given extent, 0 when the world is the smaller one.
AxisInWorld(o, size, world) ==
    IF world < size THEN o = 0 ELSE 0 <= o /\ o <= 2 * (world - size)

\* C9: in every reachable state 0 <= viewport.x <= worldWidth - width and
\* 0 <= viewport.y <= worldHeight - height, and the origin is 0 on an axis
\* where the world is smaller than the viewport.
C9_ViewportInWorld ==
    /\ AxisInWorld(viewport.x2, viewport.width, worldWidth)
    /\ AxisInWorld(viewport.y2, viewport.height, worldHeight)

\* C10: whenever a local player is known, the viewport origin is the local
\* player's position minus half the viewport size, clamped per axis.
C10_ViewportFollowsLocal ==
    Truthy(myPlayer) =>
        /\ viewport.x2 = ExpectedOrigin(myPlayer.x, viewport.width, worldWidth)
        /\ viewport.y2 = ExpectedOrigin(myPlayer.y, viewport.height, worldHeight)

\* C11: whenever a local-player record is held, the assigned id is set and
\* the record is the entry of the players store under that id.
C11_LocalRecordIsStoreEntry ==
    Truthy(myPlayer) =>
        /\ myPlayerId # NoId
        /\ MapHas(players, myPlayerId)
        /\ MapGet(players, myPlayerId) = myPlayer

\* C12: once the companions exist no message re-creates or changes them:
\* whatever payload arrives, this.npcs is afterwards what it was before.
C12_CompanionsCreatedOnce ==
    (SomeSocketOpen /\ npcs # <<>>) =>
        \A payload \in Payloads : onmessage(This, payload).g.npcs = npcs

(***************************************************************************)
(* The animation loop and the companions' tick (FrameSpec).                *)
(***************************************************************************)
\* C13: the frame loop never stops: whatever the stores hold, a frame
\* callback is pending in every reachable state.
C13_FrameLoopNeverStops == frameScheduled

\* A companion as one call of updateNPCs() may leave it.
Ticked(i) == {g1.npcs[i][2] : g1 \in updateNPCs(This)}

\* The least and the greatest squared distance, in steps, that the local
\* player and a companion may be at; the two agree on an exact position.
LeastDistance2(g, npc) ==
    LET dx == Max(Abs(DeltaX(g, npc)) - npc.xErr, 0)
        dy == Max(Abs(DeltaY(g, npc)) - npc.yErr, 0)
    IN  dx * dx + dy * dy
MostDistance2(g, npc) ==
    LET dx == Abs(DeltaX(g, npc)) + npc.xErr
        dy == Abs(DeltaY(g, npc)) + npc.yErr
    IN  dx * dx + dy * dy

\* Two records of a companion may hold the same position.
SamePlace(a, b) ==
    /\ Abs(a.x - b.x) <= a.xErr + b.xErr
    /\ Abs(a.y - b.y) <= a.yErr + b.yErr

\* C14: a tick that is due for a companion within its follow distance of
\* the local player leaves its position unchanged, clears its moving flag
\* and resets its animation frame to 0.
C14_NearCompanionStays ==
    Truthy(myPlayer) =>
        \A i \in 1..Len(npcs) :
            (Due(This, npcs[i][2]) /\ FarTests(This, npcs[i][2]) = {FALSE})
            => \A t \in Ticked(i) :
                  /\ SamePlace(t, npcs[i][2])
                  /\ t.isMoving = FALSE
                  /\ t.animationFrame = 0

\* C15: after a tick that updates a companion, the companion is inside
\* the world: 0 <= x <= worldWidth and 0 <= y <= worldHeight.
C15_TickedCompanionInWorld ==
    Truthy(myPlayer) =>
        \A i \in 1..Len(npcs) :
            Due(This, npcs[i][2])
            => \A t \in Ticked(i) :
                  /\ 0 <= t.x /\ t.x <= Unit * worldWidth
                  /\ 0 <= t.y /\ t.y <= Unit * worldHeight
                  /\ t.lastUpdate = now

\* The local player stands below the world at PosB; the second companion,
\* created outside the world on both axes, has been ticked into its corner.
C15_Witness ==
    /\ myPlayer = Player("p1", PosB)
    /\ Len(npcs) = 3
    /\ npcs[2][2].x = Unit * worldWidth
    /\ npcs[2][2].y = Unit * worldHeight
    /\ npcs[2][2].lastUpdate >= updateInterval

\* C16: a tick that is due for a companion farther than its follow
\* distance from the local player leaves it strictly nearer to the player:
\* the least distance it may be at afterwards is below the greatest it may
\* have been at before.
C16_FarCompanionApproaches ==
    Truthy(myPlayer) =>
        \A i \in 1..Len(npcs) :
            (Due(This, npcs[i][2]) /\ FarTests(This, npcs[i][2]) = {TRUE})
            => \A t \in Ticked(i) :
                  LeastDistance2(This, t) < MostDistance2(This, npcs[i][2])

\* The facing the rule of C17 gives for the deltas dx, dy.
FacingAsClaimed(facing, dx, dy) ==
    /\ (facing \in {"east", "west"}) <=> (Abs(dx) > Abs(dy))
    /\ (facing \in {"south", "north"}) <=> ~(Abs(dx) > Abs(dy))
    /\ facing = "east" => dx > 0
    /\ facing = "west" => dx <= 0
    /\ facing = "south" => dy > 0
    /\ facing = "north" => dy <= 0
    /\ Abs(dx) = Abs(dy) => facing \in {"south", "north"}

\* C17: in a tick that moves a companion, with dx and dy the deltas before
\* the move, the facing is east or west exactly when |dx| > |dy|, east for
\* dx > 0 and west otherwise, else south for dy > 0 and north otherwise (so
\* |dx| = |dy| gives a vertical facing); the animation frame becomes
\* (frame + 1) mod 3.  The deltas are the ones the code may hold: the one
\* pair of an exact position, one of the pairs within the bounds otherwise.
C17_FacingAndFrame ==
    Truthy(myPlayer) =>
        \A i \in 1..Len(npcs) :
            Due(This, npcs[i][2])
            => /\ FarTests(This, npcs[i][2]) = {TRUE}
                    => \A t \in Ticked(i) : t.isMoving = TRUE
               /\ \A t \in Ticked(i) :
                    t.isMoving = TRUE
                    => /\ \E d \in Deltas(This, npcs[i][2]) :
                            /\ TooFar(d[1], d[2], npcs[i][2].followDistance)
                            /\ FacingAsClaimed(t.facing, d[1], d[2])
                       /\ t.animationFrame = (npcs[i][2].animationFrame + 1) % 3
                       /\ t.animationFrame \in {0, 1, 2}

\* The third companion, created at PosB + (0, 50), has moved north towards
\* the player at PosE twice, on whole pixels (the first move ended in the
\* clamp to the world's edge), which took its animation frame from 0 to 2;
\* its third move, towards the player at PosG from where dx = dy = -200,
\* was 2 / sqrt(2) pixels on each axis, turned it north and wrapped its
\* animation frame to 0.
C17_Witness ==
    /\ myPlayer = Player("p1", PosG)
    /\ Len(npcs) = 3
    /\ npcs[3][2].x = Unit * PosB[1] - 14
    /\ npcs[3][2].y = Unit * (worldHeight - moveSpeed) - 14
    /\ npcs[3][2].xErr = 1
    /\ npcs[3][2].yErr = 1
    /\ npcs[3][2].facing = "north"
    /\ npcs[3][2].isMoving = TRUE
    /\ npcs[3][2].animationFrame = 0
    /\ npcs[3][2].lastUpdate >= 3 * updateInterval

(***************************************************************************)
(* Keyboard (Spec) and store operations (MessageSpec).                     *)
(***************************************************************************)
\* Keys that map to a direction, and two that do not.
AnyKey == stopKeys \cup {"x", "Enter"}

\* What socket s has sent is a move or stop message more than before.
SendsCommand(s) ==
    /\ s <= Len(sockets')
    /\ Len(sockets'[s].sent) = Len(sockets[s].sent) + 1
    /\ sockets'[s].sent[Len(sockets'[s].sent)].action \in {"move", "stop"}

\* C18: while this.ws is absent, connecting, closing or closed, a key-down
\* or key-up of any key changes nothing and sends nothing; a move or stop
\* message is only ever added to the current socket while it is open.
C18_KeysNeedOpenSocket ==
    /\ [](~IsOpen(This) =>
            \A key \in AnyKey : keydown(This, key) = This /\ keyup(This, key) = This)
    /\ [][\A s \in 1..Len(sockets) :
            SendsCommand(s) => s = ws /\ sockets[s].readyState = "OPEN"]_vars

\* The current socket sent a move while it was open and is now closing,
\* where the keys do nothing.
C18_Witness ==
    /\ ws # 0
    /\ sockets[ws].readyState = "CLOSING"
    /\ sockets[ws].sent = <<JoinMsg, MoveMsg("left")>>
    /\ keydown(This, "a") = This

\* The <<id, record>> pairs a message upserts into this.players.
Upserts(payload) ==
    IF payload.action = "player_joined"
    THEN (IF payload.hasPlayer THEN << <<payload.player.id, payload.player>> >> ELSE <<>>)
    ELSE (IF payload.hasPlayers THEN payload.players ELSE <<>>)

\* A player_joined whose player record has an id and no other field.
BareJoinedInputs ==
    {[JoinedBase EXCEPT !.hasPlayer = TRUE, !.player = [t |-> "obj", id |-> id],
                        !.hasAvatar = TRUE, !.avatar = a] :
        id \in Ids, a \in AvatarInputs}

UpsertInputs ==
    {payload \in JoinOkInputs \cup MovedInputs \cup JoinedInputs \cup BareJoinedInputs :
        Len(Upserts(payload)) > 0}

Entries(m, k) == {i \in 1..Len(m) : m[i][1] = k}

\* C19: a message that upserts a record under an id the store already
\* holds leaves exactly one entry for that id, equal to the new record
\* (nothing of the old one is kept); the store grows only by the ids that
\* were not in it.
C19_UpsertReplaces ==
    SomeSocketOpen =>
        \A payload \in UpsertInputs :
            LET after == onmessage(This, payload).g.players
                ups == Upserts(payload)
            IN  /\ \A i \in 1..Len(ups) :
                     MapHas(players, ups[i][1])
                     => /\ Cardinality(Entries(after, ups[i][1])) = 1
                        /\ MapGet(after, ups[i][1]) = ups[i][2]
                /\ Len(after) = Len(players)
                     + Cardinality({i \in 1..Len(ups) : ~MapHas(players, ups[i][1])})

\* p1 joined at PosA and a player_joined for p1 then replaced its store
\* entry by the record at PosB: one entry, the new record.
C19_Witness ==
    /\ myPlayer = Player("p1", PosA)
    /\ players = << <<"p1", Player("p1", PosB)>> >>

\* C20: a player_left for an id the store does not hold raises nothing and
\* changes nothing, and handling the same player_left twice leaves the
\* state that handling it once leaves.
C20_RemovalIdempotent ==
    SomeSocketOpen =>
        \A payload \in LeftInputs :
            LET once == onmessage(This, payload)
                twice == onmessage(once.g, payload)
            IN  /\ ~MapHas(players, payload.playerId)
                     => once.g = This /\ ~once.raised
                /\ twice.g = once.g

(***************************************************************************)
(* Reconnect delays, the tick's time gate, the reset at open.              *)
(***************************************************************************)
\* C21: the k-th consecutive reconnect attempt since the last open
\* (k = 1..5) is scheduled with a delay of k * 2000 ms: a pending timer
\* carries the delay of the number of timers scheduled so far.
C21_DelayLinearInAttempt ==
    \A i \in 1..Len(timers) :
        /\ scheduled \in 1..maxReconnectAttempts
        /\ timers[i] = scheduled * reconnectDelay

\* The fifth consecutive attempt is pending, 10000 ms out.
C21_Witness ==
    /\ scheduled = maxReconnectAttempts
    /\ timers = <<5 * reconnectDelay>>

\* C22: a frame callback changes a companion only when at least 100 ms
\* have passed since its lastUpdate, and then sets lastUpdate to the
\* current time, so that two updates of a companion are at least 100 ms
\* apart; a frame that comes sooner leaves the companion as it is.
C22_TickTimeGated ==
    \A i \in 1..Len(npcs) : \A r \in gameLoop(This) :
        LET before == npcs[i][2]
            after == r.g.npcs[i][2]
        IN  /\ now - before.lastUpdate < updateInterval => after = before
            /\ after # before
                 => /\ now - before.lastUpdate >= updateInterval
                    /\ after.lastUpdate = now
                    /\ after.lastUpdate - before.lastUpdate >= updateInterval

\* A companion that has been updated before is too far from the player,
\* and a frame is pending one clock step after that update: without the
\* gate it would move now.
C22_Witness ==
    /\ frameScheduled
    /\ Truthy(myPlayer)
    /\ \E i \in 1..Len(npcs) :
          /\ npcs[i][2].lastUpdate >= updateInterval
          /\ now - npcs[i][2].lastUpdate = ClockStep
          /\ FarTests(This, npcs[i][2]) = {TRUE}
          /\ npcs[i][2].isMoving

\* The client as the open event of connecting socket s leaves it, and as
\* the close event of that socket then leaves it.
Opened(s) == onopen(SetReadyState(This, s, "OPEN"))
Dropped(s) == onclose(Closed(Opened(s), s))

\* C23: every open resets the reconnect counter to 0, whatever it was, so
\* that the close of an opened connection schedules attempt 1 at 2000 ms
\* with the full budget ahead; while a socket is open the counter is 0;
\* and the terminal state (no timer, no live socket) is reached only by
\* more than maxReconnectAttempts failures with no open in between.
C23_OpenResetsBudget ==
    /\ \A s \in 1..Len(sockets) :
          sockets[s].readyState = "CONNECTING"
          => /\ Opened(s).reconnectAttempts = 0
             /\ Dropped(s).reconnectAttempts = 1
             /\ Dropped(s).timers = <<reconnectDelay>>
    /\ SomeSocketOpen => reconnectAttempts = 0 /\ fails = 0
    /\ (timers = <<>> /\ LiveSockets(This) = {}) => fails > maxReconnectAttempts

\* The budget is used up and the fifth attempt's socket is connecting:
\* its open event brings the counter from 5 back to 0.
C23_Witness ==
    /\ ws # 0
    /\ sockets[ws].readyState = "CONNECTING"
    /\ reconnectAttempts = maxReconnectAttempts
    /\ Opened(ws).reconnectAttempts = 0
    /\ Dropped(ws).timers = <<reconnectDelay>>

====
